---- MODULE Spec2Model ----
(***************************************************************************)
(* gorest: the annotation extractor (parse.ExtractHttpAnnotation,           *)
(* parse.ExtractRequestAnnotation) and the declaration walker               *)
(* (parse.Parser.Visit driven by go/ast.Walk).                              *)
(*                                                                          *)
(* A Go string is a sequence of one-character strings, so that the regular  *)
(* expression of parse.go is computed on the characters of the text.        *)
(***************************************************************************)
EXTENDS Integers, Sequences, FiniteSets, TLC

VARIABLES
    \* ---- extractor harness (SpecExtract) ----
    inKey,          \* the key M of the text under test
    inVal,          \* the value p of the text under test
    shape,          \* how the text is built from (inKey, inVal)
    text,           \* the text handed to the extractors
    httpOut,        \* result of ExtractHttpAnnotation(text), or Pending
    reqOut,         \* result of ExtractRequestAnnotation(text), or Pending
    \* ---- declaration walker (Spec) ----
    pc,             \* position of ast.Walk in the source unit
    result,         \* Parser.result (*ParseResult)
    buildRequest,   \* Parser.buildRequest
    nDecls,         \* number of top-level declarations walked so far
    nMethods,       \* number of interface methods met so far in the unit
    curDoc,         \* doc comment walked just before the next declaration (<<>> = none)
    methods,        \* ifc.Methods.List of the interface being walked
    idx,            \* position in methods of the walk below the interface type
    typeAnnotated,  \* history: some type declaration met so far has an HTTP annotation as its own doc comment
    ifaceCount,     \* history: interface declarations met so far that have one (counted up to 2)
    lastIface,      \* history: the last such interface declaration, [decl, doc]
    revertDue,      \* history: a type declaration that is not an interface had an HTTP annotation as its doc comment, and no comment since holds an HTTP annotation
    \* ---- generated code at run time (SpecBuild, SpecPath) ----
    client,         \* restclient.clientManager.client
    tmpl,           \* what the template was executed with: [HttpMethod, ApiEndpoint, pathKeys]
    builder,        \* the builder, a <RequestType>Impl
    lastArg,        \* history: the argument of the last call of each path setter
    lastCall,       \* history: the last setter call, [kind, key, arg]
    nCalls,         \* setter calls made so far on the builder
    built,          \* what build() gave, or Pending
    pathOut,        \* what applyPathSubstituions gave, or Pending
    \* ---- the sync and async methods at run time (SpecRun) ----
    calls,          \* the calls of the sync or async method made so far, each with the position of its caller and of its sync path
    log,            \* history: the callback methods invoked so far, in order
    crashed,        \* a goroutine panicked: the process is gone
    \* ---- the gorest command (SpecMain) ----
    unit,           \* the input file: whether go/parser accepts it, and its interface declaration
    mainPc,         \* position of main
    parsed,         \* parseResult, or Pending
    genOut,         \* buf, the text generateBuilder returned, or Pending
    outFile         \* the content of the output file, or NoFile

xvars == <<inKey, inVal, shape, text, httpOut, reqOut>>
wvars == <<pc, result, buildRequest, nDecls, nMethods, curDoc, methods, idx,
           typeAnnotated, ifaceCount, lastIface, revertDue>>
gvars == <<client, tmpl, builder, lastArg, lastCall, nCalls, built, pathOut>>
rvars == <<calls, log, crashed>>
mvars == <<unit, mainPc, parsed, genOut, outFile>>
vars == <<xvars, wvars, gvars, rvars, mvars>>

----------------------------------------------------------------------------
(* Bounds *)

\* longest value p enumerated character by character
MaxValLen == 2
\* top-level declarations in a source unit
MaxDecls == 2
\* interface methods in a source unit (all interfaces together)
MaxMethods == 2
\* setter calls on one builder
MaxCalls == 3
\* calls of the sync or async method in one run of the program
MaxExecs == 2

----------------------------------------------------------------------------
(* Characters and strings *)

EmptyString == <<>>

\* \w of Go's regexp (RE2): [0-9A-Za-z_]
WordChars ==
    {"0","1","2","3","4","5","6","7","8","9","_",
     "A","B","C","D","E","F","G","H","I","J","K","L","M",
     "N","O","P","Q","R","S","T","U","V","W","X","Y","Z",
     "a","b","c","d","e","f","g","h","i","j","k","l","m",
     "n","o","p","q","r","s","t","u","v","w","x","y","z"}

DQ == "\""
LP == "("
RP == ")"
AT == "@"
LF == "\n"

\* the dot of Go's regexp: any character but a line break
Dot(c) == c # LF

\* parse.go constants
sync == <<"S","Y","N","C">>
async == <<"A","S","Y","N","C">>
header == <<"H","E","A","D","E","R">>
path == <<"P","A","T","H">>
query == <<"Q","U","E","R","Y">>
field == <<"F","I","E","L","D">>
part == <<"P","A","R","T">>
httpMethodGet == <<"G","E","T">>
httpMethodPost == <<"P","O","S","T">>
httpMethodPostForm == <<"P","O","S","T","_","F","O","R","M">>
httpMethodPut == <<"P","U","T">>
httpMethodDelete == <<"D","E","L","E","T","E">>
httpMethodHead == <<"H","E","A","D">>

annotationTypes == {field, header, part, path, query, sync, async}

httpMethods == {httpMethodDelete, httpMethodGet, httpMethodHead,
                httpMethodPost, httpMethodPostForm, httpMethodPut}

----------------------------------------------------------------------------
(* The annotation pattern of parse.go (an at sign, a captured run of word   *)
(* characters, an opening parenthesis, a double quote, a captured greedy    *)
(* run of any characters, a double quote, a closing parenthesis) and        *)
(* regexp.FindStringSubmatch on it.                                         *)

NoMatch == <<>>

\* end of the longest run of word characters of s that starts at i
\* (the position after its last character)
RECURSIVE WordEnd(_, _)
WordEnd(s, i) ==
    IF i <= Len(s) /\ s[i] \in WordChars THEN WordEnd(s, i + 1) ELSE i

Min2(a, b) == IF a <= b THEN a ELSE b

\* position of the first line break of s at or after i (Len(s) + 1 if none)
RECURSIVE LineEnd(_, _)
LineEnd(s, i) ==
    IF i <= Len(s) /\ Dot(s[i]) THEN LineEnd(s, i + 1) ELSE i

\* the last position k in v..top where a double quote is followed by a closing
\* parenthesis (0 if there is none)
RECURSIVE LastCloser(_, _, _)
LastCloser(s, v, top) ==
    IF top < v THEN 0
    ELSE IF s[top] = DQ /\ s[top + 1] = RP THEN top
    ELSE LastCloser(s, v, top - 1)

\* the match of the pattern that starts at position i, or NoMatch.
\* The key run is greedy and the next character must be an opening
\* parenthesis, so only the longest run of word characters can be the key;
\* the value run is greedy and holds no line break, so the value ends at the
\* last closing quote-parenthesis pair of the line.
MatchAt(s, i) ==
    IF s[i] # AT THEN NoMatch
    ELSE LET j == WordEnd(s, i + 1)
         IN  IF j = i + 1 \/ j + 1 > Len(s) \/ s[j] # LP \/ s[j + 1] # DQ THEN NoMatch
             ELSE LET v == j + 2
                      k == LastCloser(s, v, Min2(LineEnd(s, v), Len(s)) - 1)
                  IN  IF k = 0 THEN NoMatch
                      ELSE <<SubSeq(s, i, k + 1), SubSeq(s, i + 1, j - 1), SubSeq(s, v, k - 1)>>

\* the leftmost match that starts at or after position i
RECURSIVE MatchFrom(_, _)
MatchFrom(s, i) ==
    IF i > Len(s) THEN NoMatch
    ELSE LET m == MatchAt(s, i)
         IN  IF m # NoMatch THEN m ELSE MatchFrom(s, i + 1)

\* re.FindStringSubmatch(s): the leftmost match, as <<whole, key, value>>
FindStringSubmatch(s) == MatchFrom(s, 1)

----------------------------------------------------------------------------
(* Annotation extraction *)

Annotation(k, v) == [Key |-> k, Value |-> v]
EmptyAnnotation == Annotation(EmptyString, EmptyString)

Extracted(a, ok) == [annotation |-> a, valid |-> ok]

\* mutant: the HTTP filter also lets the parameter key SYNC through
httpAnnotationFilterLoose(s) == s \in httpMethods \cup {sync}

httpAnnotationFilter(s) == s \in httpMethods

\* mutant: the parameter filter also lets the HTTP key HEAD through
requestAnnotationFilterLoose(s) == s \in annotationTypes \cup {httpMethodHead}

requestAnnotationFilter(s) == s \in annotationTypes

\* type annotationFilter: a filter is passed by name and applied to a key
CallFilter(filter, key) ==
    CASE filter = "httpAnnotationFilter"    -> httpAnnotationFilter(key)
      [] filter = "requestAnnotationFilter" -> requestAnnotationFilter(key)

extractAnnotation(filter, s) ==
    LET match == FindStringSubmatch(s)
    IN  IF Len(match) = 3 /\ CallFilter(filter, match[2])
        THEN Extracted(Annotation(match[2], match[3]), TRUE)
        ELSE Extracted(EmptyAnnotation, FALSE)

ExtractHttpAnnotation(s) ==
    LET r == extractAnnotation("httpAnnotationFilter", s)
    IN  IF r.annotation.Key = httpMethodPostForm
        THEN Extracted(Annotation(httpMethodPost, r.annotation.Value), r.valid)
        ELSE r

ExtractRequestAnnotation(s) == extractAnnotation("requestAnnotationFilter", s)

----------------------------------------------------------------------------
(* Extractor harness: the two extractors applied to one text *)

Range(s) == {s[i] : i \in 1..Len(s)}

\* all sequences over S of length at most n
RECURSIVE SeqsUpTo(_, _)
SeqsUpTo(S, n) ==
    IF n = 0 THEN {<<>>}
    ELSE LET shorter == SeqsUpTo(S, n - 1)
         IN  shorter \cup {Append(s, c) : s \in {t \in shorter : Len(t) = n - 1}, c \in S}

\* the text @k("v")
Annot(k, v) == <<AT>> \o k \o <<LP, DQ>> \o v \o <<DQ, RP>>

\* a line comment holding t, as go/ast keeps it in Comment.Text
LineComment(t) == <<"/", "/", " ">> \o t

\* keys the harness tries: every key of parse.go, the empty key, an unknown
\* key, keys in lower case, a key with an HTTP key as a proper prefix, and
\* the BODY key of the README
invalidKey == <<"I","N","V","A","L","I","D">>
bodyKey == <<"B","O","D","Y">>
KeyCandidates ==
    httpMethods \cup annotationTypes \cup
    {EmptyString, invalidKey, bodyKey, <<"f","i","e","l","d">>, <<"g","e","t">>,
     <<"G","E","T","X">>}

\* values the harness tries: every string of at most MaxValLen of the
\* characters the pattern looks at, and longer ones that hold the opening of
\* an annotation (a block comment holds line breaks)
ValChars == {"a", DQ, LP, RP, AT, LF}
SpecialValues ==
    {<<"/","t","e","s","t">>,
     <<"a", DQ, RP, "b">>,
     <<AT,"G","E","T", LP, DQ, "x">>,
     <<AT,"P","A","T","H", LP, DQ, "x">>,
     <<LF, AT,"G","E","T", LP, DQ, "x">>,
     <<LF, AT,"P","A","T","H", LP, DQ, "x">>}
ValueCandidates == SeqsUpTo(ValChars, MaxValLen) \cup SpecialValues

Shapes == {"annot", "comment", "noquotes", "noparens", "doubleAt"}

TextOf(sh, k, v) ==
    CASE sh = "annot"    -> Annot(k, v)
      [] sh = "comment"  -> LineComment(Annot(k, v))
      [] sh = "noquotes" -> <<AT>> \o k \o <<LP>> \o v \o <<RP>>
      [] sh = "noparens" -> <<AT>> \o k \o <<DQ>> \o v \o <<DQ>>
      [] sh = "doubleAt" -> <<AT>> \o Annot(k, v)

Pending == [pending |-> TRUE]

ExtractInit ==
    /\ inKey \in KeyCandidates
    /\ inVal \in ValueCandidates
    /\ shape \in Shapes
    /\ text = TextOf(shape, inKey, inVal)
    /\ httpOut = Pending
    /\ reqOut = Pending

ExtractIdle ==
    /\ inKey = EmptyString
    /\ inVal = EmptyString
    /\ shape = "annot"
    /\ text = EmptyString
    /\ httpOut = Pending
    /\ reqOut = Pending

CallExtractHttp ==
    /\ httpOut = Pending
    /\ httpOut' = ExtractHttpAnnotation(text)
    /\ UNCHANGED <<inKey, inVal, shape, text, reqOut>>
    /\ UNCHANGED <<wvars, gvars, rvars, mvars>>

CallExtractRequest ==
    /\ reqOut = Pending
    /\ reqOut' = ExtractRequestAnnotation(text)
    /\ UNCHANGED <<inKey, inVal, shape, text, httpOut>>
    /\ UNCHANGED <<wvars, gvars, rvars, mvars>>

----------------------------------------------------------------------------
(* The source unit, as go/parser hands it to the walker *)

Digits == <<"1","2","3","4","5","6","7","8","9">>

\* pkg argument of NewParser
PkgName == <<"p">>

\* the i-th top-level declaration is named T<i>: Go forbids two declarations
\* of one name in a package
TypeName(i) == <<"T", Digits[i]>>

\* method names; go/parser does not reject an interface that declares one
\* name twice
MethodNameSeq == << <<"M","1">>, <<"M","2">> >>

StrGetEndpoint == <<"/","a","/","{","i","d","}">>
StrPostEndpoint == <<"/","b">>

\* doc comments met above top-level declarations
DeclDocs ==
    {LineComment(Annot(httpMethodGet, StrGetEndpoint)),
     LineComment(Annot(httpMethodPostForm, StrPostEndpoint)),
     LineComment(Annot(invalidKey, <<"x">>))}

\* doc comments met above interface methods that carry no parameter annotation
DroppedDocs ==
    {LineComment(Annot(invalidKey, <<"x">>)),
     LineComment(Annot(httpMethodPut, <<"/","m">>)),
     LineComment(<<AT>> \o path \o <<LP, "i", "d", RP>>)}

\* an *ast.Field of an interface's method list: the interface it belongs to
\* (its identity), its name and its Doc.List (empty when Doc is nil)
Field(i, n, d) == [iface |-> i, name |-> n, doc |-> d]

\* the nil *ast.Field
NoField == Field(0, EmptyString, <<>>)

\* f.Doc.List[0] dereferences f.Doc: a field without doc comment has a nil Doc
FieldDocIsNil(f) == f.doc = <<>>

\* The methods of interface i that the walk may meet next while it collects
\* into res.  Units are enumerated up to renaming of methods.  Visit reads a
\* method's name only to key the map of the method's annotation, so a method
\* for a map takes a name that is a key of that map already or the first name
\* that is not, and every other method takes the first name.
MapDocs ==
    [PathSubstitutions   |-> LineComment(Annot(path, <<"i","d">>)),
     QueryParams         |-> LineComment(Annot(query, <<"q">>)),
     PostFormParams      |-> LineComment(Annot(field, <<"f">>)),
     HeaderParams        |-> LineComment(Annot(header, <<"h">>)),
     PostMultiPartParams |-> LineComment(Annot(part, <<"d">>))]

ResponseDocs ==
    {LineComment(Annot(sync, <<"R">>)),
     LineComment(Annot(sync, EmptyString)),
     LineComment(Annot(async, <<"C">>)),
     LineComment(Annot(async, EmptyString))}

NextNames(keys) ==
    {MethodNameSeq[k] : k \in 1..Min2(Cardinality(keys) + 1, Len(MethodNameSeq))}

UnnamedFields(i) ==
    {Field(i, MethodNameSeq[1], d) :
        d \in {<<>>} \cup {<<t>> : t \in DroppedDocs \cup ResponseDocs}}

NextFields(res, i) ==
    UnnamedFields(i)
    \cup UNION {{Field(i, n, <<MapDocs[m]>>) : n \in NextNames(DOMAIN res[m])} :
                m \in DOMAIN MapDocs}

----------------------------------------------------------------------------
(* ParseResult *)

EmptyMap == <<>>

MapPut(m, k, v) == [x \in DOMAIN m \cup {k} |-> IF x = k THEN v ELSE m[x]]

newParseResult(pkg) ==
    [PackageName         |-> pkg,
     RequestType         |-> EmptyString,
     ApiEndpoint         |-> EmptyString,
     HttpMethod          |-> EmptyString,
     PathSubstitutions   |-> EmptyMap,
     QueryParams         |-> EmptyMap,
     PostFormParams      |-> EmptyMap,
     PostMultiPartParams |-> EmptyMap,
     PostParams          |-> EmptyMap,
     HeaderParams        |-> EmptyMap,
     SyncResponse        |-> NoField,
     AsyncResponse       |-> NoField,
     CallbackType        |-> EmptyString,
     ResponseType        |-> EmptyString]

\* the five maps the annotations fill, and all six maps
FilledMaps == {"PathSubstitutions", "QueryParams", "PostFormParams",
               "HeaderParams", "PostMultiPartParams"}
AllMaps == FilledMaps \cup {"PostParams"}

----------------------------------------------------------------------------
(* Parser.Visit, case by case.  A case maps the parser state                *)
(* [result, buildRequest] to the parser state after the call.               *)

PState(res, br) == [result |-> res, buildRequest |-> br]

\* case *ast.File
VisitFileCase(ps) == PState(ps.result, FALSE)

\* case *ast.TypeSpec; isInterface tells typeSpec.Type's dynamic type
VisitTypeSpecCase(ps, name, isInterface) ==
    IF isInterface
    THEN IF ps.buildRequest
         THEN PState([ps.result EXCEPT !.RequestType = name], ps.buildRequest)
         ELSE PState(ps.result, FALSE)
    ELSE ps

\* case *ast.Comment
VisitCommentCase(ps, commentText) ==
    LET e == ExtractHttpAnnotation(commentText)
    IN  IF e.valid
        THEN PState([ps.result EXCEPT !.HttpMethod = e.annotation.Key,
                                      !.ApiEndpoint = e.annotation.Value],
                    TRUE)
        ELSE ps

\* mutant: a method whose annotation is not recognized is stored as a query
\* parameter instead of being skipped
CollectFieldKeepInvalid(res, f) ==
    LET e == ExtractRequestAnnotation(f.doc[1])
        key == e.annotation.Key
        param == f.name
    IN  IF ~e.valid THEN [res EXCEPT !.QueryParams = MapPut(@, param, f)]
        ELSE CASE key = field  -> [res EXCEPT !.PostFormParams = MapPut(@, param, f)]
               [] key = header -> [res EXCEPT !.HeaderParams = MapPut(@, param, f)]
               [] key = part   -> [res EXCEPT !.PostMultiPartParams = MapPut(@, param, f)]
               [] key = path   -> [res EXCEPT !.PathSubstitutions = MapPut(@, param, f)]
               [] key = query  -> [res EXCEPT !.QueryParams = MapPut(@, param, f)]
               [] key = sync   -> [res EXCEPT !.SyncResponse = f,
                                              !.ResponseType = e.annotation.Value]
               [] key = async  -> [res EXCEPT !.AsyncResponse = f,
                                              !.CallbackType = e.annotation.Value]
               [] OTHER        -> res

\* one iteration of the loop over ifc.Methods.List, for a field whose Doc is
\* not nil
CollectField(res, f) ==
    LET e == ExtractRequestAnnotation(f.doc[1])
        key == e.annotation.Key
        param == f.name
    IN  IF ~e.valid THEN res
        ELSE CASE key = field  -> [res EXCEPT !.PostFormParams = MapPut(@, param, f)]
               [] key = header -> [res EXCEPT !.HeaderParams = MapPut(@, param, f)]
               [] key = part   -> [res EXCEPT !.PostMultiPartParams = MapPut(@, param, f)]
               [] key = path   -> [res EXCEPT !.PathSubstitutions = MapPut(@, param, f)]
               [] key = query  -> [res EXCEPT !.QueryParams = MapPut(@, param, f)]
               [] key = sync   -> [res EXCEPT !.SyncResponse = f,
                                              !.ResponseType = e.annotation.Value]
               [] key = async  -> [res EXCEPT !.AsyncResponse = f,
                                              !.CallbackType = e.annotation.Value]
               [] OTHER        -> res

\* the loop  for _, f := range methods.List  from the i-th method on: the
\* result it leaves, and whether it panics on a nil f.Doc
RECURSIVE CollectMethods(_, _, _)
CollectMethods(res, ms, i) ==
    IF i > Len(ms) THEN [result |-> res, panic |-> FALSE]
    ELSE IF FieldDocIsNil(ms[i]) THEN [result |-> res, panic |-> TRUE]
    ELSE CollectMethods(CollectField(res, ms[i]), ms, i + 1)

\* the method lists of at most n methods that interface i may have, when its
\* methods are collected into res (a nil Doc stops the loop, so the methods
\* after it meet res as it is)
RECURSIVE CollectedLists(_, _, _)
CollectedLists(res, i, n) ==
    IF n = 0 THEN {<<>>}
    ELSE {<<>>} \cup
         UNION {{<<f>> \o rest :
                    rest \in CollectedLists(IF FieldDocIsNil(f) THEN res ELSE CollectField(res, f),
                                            i, n - 1)} :
                f \in NextFields(res, i)}

\* the method lists of at most n methods that interface i may have, when its
\* methods are not collected
SkippedLists(i, n) == SeqsUpTo(NextFields(newParseResult(PkgName), i), n)

MethodLists(st, i, n) ==
    IF st.buildRequest THEN CollectedLists(st.result, i, n) ELSE SkippedLists(i, n)

\* case *ast.InterfaceType
VisitInterfaceTypeCase(st, ms) ==
    IF ~st.buildRequest
    THEN [result |-> st.result, panic |-> FALSE]
    ELSE CollectMethods(st.result, ms, 1)

----------------------------------------------------------------------------
(* ast.Walk(p, p.file): the order in which the nodes reach Visit.           *)
(* Only the nodes Visit has a case for are steps, plus the function         *)
(* declarations (default case).  The unit is revealed as the walk meets it. *)

ps == PState(result, buildRequest)

SetPState(q) ==
    /\ result' = q.result
    /\ buildRequest' = q.buildRequest

IsHttpDoc(d) == d # <<>> /\ ExtractHttpAnnotation(d[1]).valid

\* least j >= i such that the field ms[j] has a doc comment; 0 if there is none
RECURSIVE NextDocField(_, _)
NextDocField(ms, i) ==
    IF i > Len(ms) THEN 0
    ELSE IF FieldDocIsNil(ms[i]) THEN NextDocField(ms, i + 1)
    ELSE i

\* the walk goes on below the interface type: the doc comments of the fields
\* ms[i], ms[i+1], ..., then the next top-level declaration
WalkFieldsFrom(ms, i) ==
    LET j == NextDocField(ms, i)
    IN  IF j = 0
        THEN /\ pc' = "top"
             /\ idx' = 0
             /\ methods' = <<>>
             /\ nDecls' = nDecls + 1
        ELSE /\ pc' = "fields"
             /\ idx' = j
             /\ methods' = ms
             /\ UNCHANGED nDecls

NoIface == [decl |-> 0, doc |-> EmptyString]

WalkInit ==
    /\ pc = "file"
    /\ result = newParseResult(PkgName)
    /\ buildRequest = FALSE
    /\ nDecls = 0
    /\ nMethods = 0
    /\ curDoc = <<>>
    /\ methods = <<>>
    /\ idx = 0
    /\ typeAnnotated = FALSE
    /\ ifaceCount = 0
    /\ lastIface = NoIface
    /\ revertDue = FALSE

\* Visit(*ast.File)
VisitFile ==
    /\ pc = "file"
    /\ SetPState(VisitFileCase(ps))
    /\ pc' = "top"
    /\ UNCHANGED <<nDecls, nMethods, curDoc, methods, idx, typeAnnotated, ifaceCount, lastIface, revertDue>>
    /\ UNCHANGED <<xvars, gvars, rvars, mvars>>

\* Visit(*ast.Comment) for the doc comment of the next top-level declaration
VisitDeclComment ==
    /\ pc = "top"
    /\ nDecls < MaxDecls
    /\ curDoc = <<>>
    /\ \E t \in DeclDocs :
        /\ SetPState(VisitCommentCase(ps, t))
        /\ curDoc' = <<t>>
        /\ revertDue' = (revertDue /\ ~IsHttpDoc(<<t>>))
    /\ UNCHANGED <<pc, nDecls, nMethods, methods, idx, typeAnnotated, ifaceCount, lastIface>>
    /\ UNCHANGED <<xvars, gvars, rvars, mvars>>

\* Visit(*ast.TypeSpec) for a type declaration; its Type is an interface type
\* (walked next) or a struct type
VisitTypeSpec ==
    /\ pc = "top"
    /\ nDecls < MaxDecls
    /\ \E isInterface \in BOOLEAN :
        /\ SetPState(VisitTypeSpecCase(ps, TypeName(nDecls + 1), isInterface))
        /\ typeAnnotated' = (typeAnnotated \/ IsHttpDoc(curDoc))
        /\ IF isInterface /\ IsHttpDoc(curDoc)
           THEN /\ ifaceCount' = IF ifaceCount < 2 THEN ifaceCount + 1 ELSE ifaceCount
                /\ lastIface' = [decl |-> nDecls + 1, doc |-> curDoc[1]]
           ELSE UNCHANGED <<ifaceCount, lastIface>>
        /\ revertDue' = (revertDue \/ (~isInterface /\ IsHttpDoc(curDoc)))
        /\ pc' = IF isInterface THEN "iface" ELSE "struct"
    /\ curDoc' = <<>>
    /\ UNCHANGED <<nDecls, nMethods, methods, idx>>
    /\ UNCHANGED <<xvars, gvars, rvars, mvars>>

\* Visit(*ast.StructType), the Type of the type declaration just visited: no
\* case of the switch
VisitStructType ==
    /\ pc = "struct"
    /\ pc' = "top"
    /\ nDecls' = nDecls + 1
    /\ UNCHANGED <<result, buildRequest, nMethods, curDoc, methods, idx,
                   typeAnnotated, ifaceCount, lastIface, revertDue>>
    /\ UNCHANGED <<xvars, gvars, rvars, mvars>>

\* Visit(*ast.FuncDecl): no case of the switch
VisitFuncDecl ==
    /\ pc = "top"
    /\ nDecls < MaxDecls
    /\ nDecls' = nDecls + 1
    /\ curDoc' = <<>>
    /\ UNCHANGED <<pc, result, buildRequest, nMethods, methods, idx, typeAnnotated, ifaceCount, lastIface, revertDue>>
    /\ UNCHANGED <<xvars, gvars, rvars, mvars>>

\* Visit(*ast.InterfaceType), with the interface's method list
VisitInterfaceType ==
    /\ pc = "iface"
    /\ \E ms \in MethodLists(ps, nDecls + 1, MaxMethods - nMethods) :
        LET out == VisitInterfaceTypeCase(ps, ms)
        IN  /\ nMethods' = nMethods + Len(ms)
            /\ result' = out.result
            /\ IF out.panic
               THEN /\ pc' = "panic"
                    /\ methods' = ms
                    /\ UNCHANGED <<idx, nDecls>>
               ELSE WalkFieldsFrom(ms, 1)
    /\ UNCHANGED <<buildRequest, curDoc, typeAnnotated, ifaceCount, lastIface, revertDue>>
    /\ UNCHANGED <<xvars, gvars, rvars, mvars>>

\* Visit(*ast.Comment) for the doc comment of a method of the interface
VisitFieldComment ==
    /\ pc = "fields"
    /\ SetPState(VisitCommentCase(ps, methods[idx].doc[1]))
    /\ revertDue' = (revertDue /\ ~IsHttpDoc(methods[idx].doc))
    /\ WalkFieldsFrom(methods, idx + 1)
    /\ UNCHANGED <<nMethods, curDoc, typeAnnotated, ifaceCount, lastIface>>
    /\ UNCHANGED <<xvars, gvars, rvars, mvars>>

\* Parse returns p.result
ParseReturn ==
    /\ pc = "top"
    /\ curDoc = <<>>
    /\ pc' = "done"
    /\ UNCHANGED <<result, buildRequest, nDecls, nMethods, curDoc, methods, idx, typeAnnotated, ifaceCount, lastIface, revertDue>>
    /\ UNCHANGED <<xvars, gvars, rvars, mvars>>

----------------------------------------------------------------------------
(* The generated code (the template of generate.Generate), at run time:     *)
(* strings and the library calls it makes                                   *)

LowerLetters == <<"a","b","c","d","e","f","g","h","i","j","k","l","m","n","o","p","q","r","s","t","u","v","w","x","y","z">>
UpperLetters == <<"A","B","C","D","E","F","G","H","I","J","K","L","M","N","O","P","Q","R","S","T","U","V","W","X","Y","Z">>
DecDigits == <<"0","1","2","3","4","5","6","7","8","9">>

\* position of c in the sequence q (0 if c is not in it)
IndexIn(q, c) ==
    IF \E i \in 1..Len(q) : q[i] = c THEN CHOOSE i \in 1..Len(q) : q[i] = c ELSE 0

\* arguments of the setters: a Go value with its static type
\* an argument of a setter (interface{}): a string or an int
StrArg(v) == [t |-> "string", v |-> v, n |-> 0]
IntArg(n) == [t |-> "int", v |-> <<>>, n |-> n]

\* decimal digits of a natural number
RECURSIVE Decimal(_)
Decimal(n) ==
    IF n < 10 THEN <<DecDigits[n + 1]>> ELSE Append(Decimal(n \div 10), DecDigits[(n % 10) + 1])

\* fmt.Sprintf("%v", arg)
Sprintf(arg) == IF arg.t = "int" THEN Decimal(arg.n) ELSE arg.v

\* mutant: every text in braces is replaced, whatever its name
RECURSIVE ReplaceAnyToken(_, _, _)
ReplaceAnyToken(s, old, new) ==
    IF s = <<>> THEN s
    ELSE IF s[1] = "{" /\ \E j \in 2..Len(s) : s[j] = "}"
         THEN LET j == CHOOSE x \in 2..Len(s) : s[x] = "}" /\ \A y \in 2..(x - 1) : s[y] # "}"
              IN  new \o ReplaceAnyToken(SubSeq(s, j + 1, Len(s)), old, new)
         ELSE <<s[1]>> \o ReplaceAnyToken(Tail(s), old, new)

\* strings.Replace(s, old, new, -1) for a non-empty old: the occurrences of
\* old that do not overlap, from the left
RECURSIVE Replace(_, _, _)
Replace(s, old, new) ==
    IF Len(s) < Len(old) THEN s
    ELSE IF SubSeq(s, 1, Len(old)) = old
         THEN new \o Replace(SubSeq(s, Len(old) + 1, Len(s)), old, new)
         ELSE <<s[1]>> \o Replace(SubSeq(s, 2, Len(s)), old, new)

\* textproto.CanonicalMIMEHeaderKey for keys of letters and hyphens: upper
\* case at the start and after a hyphen, lower case elsewhere
RECURSIVE CanonicalFrom(_, _, _)
CanonicalFrom(s, i, upper) ==
    IF i > Len(s) THEN <<>>
    ELSE LET c == s[i]
             lo == IndexIn(LowerLetters, c)
             up == IndexIn(UpperLetters, c)
             d == IF upper /\ lo > 0 THEN UpperLetters[lo]
                  ELSE IF ~upper /\ up > 0 THEN LowerLetters[up]
                  ELSE c
         IN  <<d>> \o CanonicalFrom(s, i + 1, c = "-")

CanonicalMIMEHeaderKey(s) == CanonicalFrom(s, 1, TRUE)

\* http.Header.Set
HeaderSet(h, k, v) == MapPut(h, CanonicalMIMEHeaderKey(k), v)

\* url.QueryEscape, character by character
EscapeChar(c) ==
    IF c \in WordChars \cup {"-", ".", "~"} THEN <<c>>
    ELSE IF c = " " THEN <<"+">>
    ELSE IF c = "/" THEN <<"%", "2", "F">>
    ELSE IF c = "{" THEN <<"%", "7", "B">>
    ELSE IF c = "}" THEN <<"%", "7", "D">>
    ELSE <<"%", "?", "?">>

RECURSIVE QueryEscape(_)
QueryEscape(s) == IF s = <<>> THEN <<>> ELSE EscapeChar(s[1]) \o QueryEscape(Tail(s))

\* byte order of the characters the keys are made of
ByteOrder == DecDigits \o UpperLetters \o <<"_">> \o LowerLetters

\* s sorts before t (sort.Strings)
RECURSIVE StrLess(_, _)
StrLess(s, t) ==
    IF t = <<>> THEN FALSE
    ELSE IF s = <<>> THEN TRUE
    ELSE IF s[1] = t[1] THEN StrLess(Tail(s), Tail(t))
    ELSE IndexIn(ByteOrder, s[1]) < IndexIn(ByteOrder, t[1])

\* url.Values.Add
ValuesAdd(vs, k, v) ==
    IF k \in DOMAIN vs THEN [vs EXCEPT ![k] = Append(@, v)] ELSE MapPut(vs, k, <<v>>)

\* key=value&key=value for the values of one key, in their order
RECURSIVE EncodeKey(_, _, _)
EncodeKey(k, vals, i) ==
    IF i > Len(vals) THEN <<>>
    ELSE (IF i > 1 THEN <<"&">> ELSE <<>>)
         \o QueryEscape(k) \o <<"=">> \o QueryEscape(vals[i]) \o EncodeKey(k, vals, i + 1)

\* url.Values.Encode: the keys in sorted order
RECURSIVE EncodeFrom(_, _)
EncodeFrom(vs, keys) ==
    IF keys = {} THEN <<>>
    ELSE LET k == CHOOSE x \in keys : \A y \in keys \ {x} : StrLess(x, y)
             rest == EncodeFrom(vs, keys \ {k})
         IN  EncodeKey(k, vs[k], 1) \o (IF rest = <<>> THEN <<>> ELSE <<"&">> \o rest)

Encode(vs) == EncodeFrom(vs, DOMAIN vs)

\* url.Parse fails on a text that starts with a colon (missing protocol scheme)
UrlParses(u) == ~(Len(u) > 0 /\ u[1] = ":")

----------------------------------------------------------------------------
(* The generated builder, its setters and build()                           *)

NoClient == [registered |-> FALSE]
DefaultClient(baseURL, debug) == [registered |-> TRUE, baseURL |-> baseURL, debug |-> debug]

StrBaseURL == <<"h","t","t","p",":","/","/","h">>
StrBadBaseURL == <<":">>

Clients == {NoClient, DefaultClient(StrBaseURL, FALSE), DefaultClient(StrBadBaseURL, FALSE)}

\* postBody: nil, a value json.Marshal encodes, a value it refuses
NilBody == [isNil |-> TRUE]
JsonBody == [isNil |-> FALSE, json |-> "{\"id\":1}"]
BadBody == [isNil |-> FALSE, json |-> "unsupported"]

\* New<RequestType>()
NewBuilder ==
    [pathSubstitutions  |-> EmptyMap,
     queryParams        |-> EmptyMap,
     postFormParams     |-> EmptyMap,
     postBody           |-> NilBody,
     postMultiPartParam |-> EmptyMap,
     headerParams       |-> EmptyMap]

\* the setters; key is the annotation value of the method
PathSetter(bs, key, arg) == [bs EXCEPT !.pathSubstitutions = MapPut(@, key, Sprintf(arg))]
\* mutant: the query setter keeps the last value of a key only
QuerySetterOverwrite(bs, key, arg) == [bs EXCEPT !.queryParams = MapPut(@, key, <<Sprintf(arg)>>)]

QuerySetter(bs, key, arg) == [bs EXCEPT !.queryParams = ValuesAdd(@, key, Sprintf(arg))]
FormSetter(bs, key, arg) == [bs EXCEPT !.postFormParams = ValuesAdd(@, key, Sprintf(arg))]
BodySetter(bs, arg) == [bs EXCEPT !.postBody = arg]
HeaderSetter(bs, key, arg) == [bs EXCEPT !.headerParams = MapPut(@, key, Sprintf(arg))]
\* (the template names the field postMultiPartParams here and
\* postMultiPartParam in the struct and in build)
PartSetter(bs, key, arg) == [bs EXCEPT !.postMultiPartParam = MapPut(@, key, Sprintf(arg))]

\* applyPathSubstituions: Go ranges over a map in an order it does not
\* fix, so the routine is the set of the results of all orders
RECURSIVE ApplyPathFrom(_, _, _)
ApplyPathFrom(api, subs, keys) ==
    IF keys = {} THEN {api}
    ELSE UNION {ApplyPathFrom(Replace(api, <<"{">> \o k \o <<"}">>, subs[k]), subs, keys \ {k}) :
                   k \in keys}

applyPathSubstituions(bs, api) ==
    IF DOMAIN bs.pathSubstitutions = {} THEN {api}
    ELSE ApplyPathFrom(api, bs.pathSubstitutions, DOMAIN bs.pathSubstitutions)

\* *http.Request
NilRequest == [isNil |-> TRUE]
NoBody == [kind |-> "none"]
Request(method, url, body) ==
    [isNil |-> FALSE, Method |-> method, URL |-> url, RawQuery |-> EmptyString,
     Body |-> body, Header |-> EmptyMap]

ReqHeaderSet(req, k, v) == [req EXCEPT !.Header = HeaderSet(@, k, v)]

StrAccept == <<"A","c","c","e","p","t">>
StrContentType == <<"C","o","n","t","e","n","t","-","T","y","p","e">>

NoError == "nil"
ErrNoClient == "A rest client has not been registered yet. You must call client.RegisterClient first"
ErrMarshal == "json: unsupported type"
ErrNewRequest == "parse: missing protocol scheme"

\* what build returns, or that it panics
Returned(req, err) == [req |-> req, err |-> err, panic |-> FALSE]
Panics == [req |-> NilRequest, err |-> NoError, panic |-> TRUE]

\* http.NewRequest
NewRequest(method, url, body) ==
    IF UrlParses(url) THEN Returned(Request(method, url, body), NoError)
    ELSE Returned(NilRequest, ErrNewRequest)

\* for key, value := range b.headerParams { req.Header.Set(key, value) }, in
\* every order of the keys
RECURSIVE ApplyHeadersFrom(_, _, _)
ApplyHeadersFrom(req, params, keys) ==
    IF keys = {} THEN {req}
    ELSE UNION {ApplyHeadersFrom(ReqHeaderSet(req, k, params[k]), params, keys \ {k}) : k \in keys}

\* the media types build names
StrApplicationJson == <<"a","p","p","l","i","c","a","t","i","o","n","/","j","s","o","n">>
StrFormUrlencoded == <<"a","p","p","l","i","c","a","t","i","o","n","/","x","-","w","w","w","-","f","o","r","m","-","u","r","l","e","n","c","o","d","e","d">>
StrMultipartFormData == <<"m","u","l","t","i","p","a","r","t","/","f","o","r","m","-","d","a","t","a">>

\* the statements of build after the switch; req.Header of a nil req panics
BuildTail(req, bs) ==
    IF req.isNil THEN {Panics}
    ELSE {Returned(r, NoError) :
             r \in ApplyHeadersFrom(ReqHeaderSet(req, StrAccept, StrApplicationJson),
                                    bs.headerParams, DOMAIN bs.headerParams)}

\* mutant: the form values are looked at before the body object
PostBranchFormFirst(bs) ==
    IF DOMAIN bs.postFormParams # {} THEN "form"
    ELSE IF ~bs.postBody.isNil THEN "json"
    ELSE IF DOMAIN bs.postMultiPartParam # {} THEN "multipart"
    ELSE "none"

\* the branch the if / else if chain of case "POST", "PUT" takes
PostBranch(bs) ==
    IF ~bs.postBody.isNil THEN "json"
    ELSE IF DOMAIN bs.postFormParams # {} THEN "form"
    ELSE IF DOMAIN bs.postMultiPartParam # {} THEN "multipart"
    ELSE "none"

\* the body and the Content-Type of a branch
BranchBody(branch, bs) ==
    IF branch = "json" THEN [kind |-> "json", text |-> bs.postBody.json]
    ELSE IF branch = "form" THEN [kind |-> "form", text |-> Encode(bs.postFormParams)]
    ELSE [kind |-> "multipart", fields |-> bs.postMultiPartParam]

BranchContentType(branch) ==
    IF branch = "json" THEN StrApplicationJson
    ELSE IF branch = "form" THEN StrFormUrlencoded
    ELSE StrMultipartFormData

\* the switch of build for one url, and what follows it
BuildSwitch(httpMethod, url, bs) ==
    IF httpMethod \in {httpMethodPost, httpMethodPut}
    THEN LET branch == PostBranch(bs)
         IN  IF branch = "none" THEN BuildTail(NilRequest, bs)
             ELSE IF branch = "json" /\ bs.postBody = BadBody
             THEN {Returned(NilRequest, ErrMarshal)}
             ELSE LET n == NewRequest(httpMethod, url, BranchBody(branch, bs))
                  IN  IF n.err # NoError THEN {Returned(NilRequest, n.err)}
                      ELSE BuildTail(ReqHeaderSet(n.req, StrContentType,
                                                  BranchContentType(branch)), bs)
    ELSE IF httpMethod \in {httpMethodGet, httpMethodDelete}
    THEN LET n == NewRequest(httpMethod, url, NoBody)
         IN  IF n.err # NoError THEN {Returned(NilRequest, n.err)}
             ELSE BuildTail(IF DOMAIN bs.queryParams # {}
                            THEN [n.req EXCEPT !.RawQuery = Encode(bs.queryParams)]
                            ELSE n.req, bs)
    ELSE BuildTail(NilRequest, bs)

\* mutant: build does not look whether GetClient gave nil
buildNoNilCheck(tm, cl, bs) ==
    IF ~cl.registered THEN {Panics}
    ELSE UNION {BuildSwitch(tm.HttpMethod, cl.baseURL \o api, bs) :
                   api \in applyPathSubstituions(bs, tm.ApiEndpoint)}

\* build(): everything it can give for the builder bs, with client cl registered
build(tm, cl, bs) ==
    IF ~cl.registered THEN {Returned(NilRequest, ErrNoClient)}
    ELSE UNION {BuildSwitch(tm.HttpMethod, cl.baseURL \o api, bs) :
                   api \in applyPathSubstituions(bs, tm.ApiEndpoint)}

----------------------------------------------------------------------------
(* A program that uses the generated builder: New<RequestType>(), setter     *)
(* calls, then build() or applyPathSubstituions                              *)

StrPhotosEndpoint == <<"/","p","h","o","t","o","s","/","{","i","d","}">>

\* the HTTP methods the walker can leave in ParseResult.HttpMethod
RunMethods == {httpMethodGet, httpMethodPost, httpMethodPut, httpMethodDelete, httpMethodHead}

Template(m, api, keys) == [HttpMethod |-> m, ApiEndpoint |-> api, pathKeys |-> keys]

\* the builders build() is tried on
BuildTemplates == {Template(m, StrPhotosEndpoint, {<<"i","d">>}) : m \in RunMethods}

\* the templates applyPathSubstituions is tried on: an endpoint and the
\* values of the PATH annotations of the interface
PathTemplates ==
    {Template(httpMethodGet, <<"/","{","a","}","/","{","b","}">>, {<<"a">>, <<"b">>}),
     Template(httpMethodGet, <<"/","{","b","}","/","{","a","}","/","{","b","}">>, {<<"a">>, <<"b">>}),
     Template(httpMethodGet, <<"/","{","a","}","/","{","a","}">>, {<<"a">>}),
     Template(httpMethodGet, <<"/","{","a","}","/","{","c","}">>, {<<"a">>}),
     Template(httpMethodGet, <<"/","x">>, {})}

\* annotation values of the other setters, and the arguments the calls pass
QueryKeys == {<<"i","m","a","g","e","_","s","i","z","e">>, <<"a">>}
FormKeys == {<<"f">>}
HeaderKeys == {<<"A","c","c","e","p","t">>, <<"c","o","n","t","e","n","t","-","t","y","p","e">>, <<"x","-","t","y","p","e">>}
PartKeys == {<<"d">>}
PathArgs == {StrArg(<<"4","2">>), IntArg(7), StrArg(<<"{","b","}">>)}
QueryArgs == {IntArg(100), StrArg(<<"a"," ","b">>)}
FormArgs == {StrArg(<<"v">>)}
HeaderArgs == {StrArg(<<"t">>), StrArg(EmptyString)}
PartArgs == {StrArg(<<"x">>)}
BodyArgs == {JsonBody, BadBody}

SetterCall(kind, key, arg) == [kind |-> kind, key |-> key, arg |-> arg]
NoCall == SetterCall("none", EmptyString, StrArg(EmptyString))

RunInit(templates, clients) ==
    /\ client \in clients
    /\ tmpl \in templates
    /\ builder = NewBuilder
    /\ lastArg = EmptyMap
    /\ lastCall = NoCall
    /\ nCalls = 0
    /\ built = Pending
    /\ pathOut = Pending
    /\ calls = <<>>
    /\ log = <<>>
    /\ crashed = FALSE

RunIdle == RunInit({Template(EmptyString, EmptyString, {})}, {NoClient})

\* a setter may be called while the builder has not been used
CanCall ==
    /\ nCalls < MaxCalls
    /\ built = Pending
    /\ pathOut = Pending

Called(bs, kind, key, arg) ==
    /\ builder' = bs
    /\ lastCall' = SetterCall(kind, key, arg)
    /\ nCalls' = nCalls + 1
    /\ UNCHANGED <<client, tmpl, built, pathOut>>
    /\ UNCHANGED <<xvars, wvars, rvars, mvars>>

CallPathSetter ==
    /\ CanCall
    /\ \E key \in tmpl.pathKeys, arg \in PathArgs :
        /\ Called(PathSetter(builder, key, arg), "path", key, arg)
        /\ lastArg' = MapPut(lastArg, key, arg)

CallQuerySetter ==
    /\ CanCall
    /\ \E key \in QueryKeys, arg \in QueryArgs : Called(QuerySetter(builder, key, arg), "query", key, arg)
    /\ UNCHANGED lastArg

CallFormSetter ==
    /\ CanCall
    /\ \E key \in FormKeys, arg \in FormArgs : Called(FormSetter(builder, key, arg), "form", key, arg)
    /\ UNCHANGED lastArg

CallBodySetter ==
    /\ CanCall
    /\ \E arg \in BodyArgs : Called(BodySetter(builder, arg), "body", EmptyString, arg)
    /\ UNCHANGED lastArg

CallHeaderSetter ==
    /\ CanCall
    /\ \E key \in HeaderKeys, arg \in HeaderArgs : Called(HeaderSetter(builder, key, arg), "header", key, arg)
    /\ UNCHANGED lastArg

CallPartSetter ==
    /\ CanCall
    /\ \E key \in PartKeys, arg \in PartArgs : Called(PartSetter(builder, key, arg), "part", key, arg)
    /\ UNCHANGED lastArg

\* b.build()
CallBuild ==
    /\ built = Pending
    /\ built' \in build(tmpl, client, builder)
    /\ UNCHANGED <<client, tmpl, builder, lastArg, lastCall, nCalls, pathOut>>
    /\ UNCHANGED <<xvars, wvars, rvars, mvars>>

\* b.applyPathSubstituions("<ApiEndpoint>")
CallApplyPath ==
    /\ pathOut = Pending
    /\ \E api \in applyPathSubstituions(builder, tmpl.ApiEndpoint) : pathOut' = [api |-> api]
    /\ UNCHANGED <<client, tmpl, builder, lastArg, lastCall, nCalls, built>>
    /\ UNCHANGED <<xvars, wvars, rvars, mvars>>

----------------------------------------------------------------------------
(* The generated sync and async methods, step by step                       *)

\* url.QueryUnescape of what QueryEscape gives
RECURSIVE QueryUnescape(_)
QueryUnescape(s) ==
    IF s = <<>> THEN <<>>
    ELSE IF s[1] = "+" THEN <<" ">> \o QueryUnescape(Tail(s))
    ELSE IF s[1] = "%" /\ Len(s) >= 3
         THEN (IF SubSeq(s, 2, 3) = <<"2", "F">> THEN <<"/">>
               ELSE IF SubSeq(s, 2, 3) = <<"7", "B">> THEN <<"{">>
               ELSE IF SubSeq(s, 2, 3) = <<"7", "D">> THEN <<"}">>
               ELSE <<"?">>) \o QueryUnescape(SubSeq(s, 4, Len(s)))
    ELSE <<s[1]>> \o QueryUnescape(Tail(s))

\* index of the first c in s, or Len(s) + 1
RECURSIVE FirstIndex(_, _, _)
FirstIndex(s, c, i) ==
    IF i > Len(s) \/ s[i] = c THEN i ELSE FirstIndex(s, c, i + 1)

\* url.ParseQuery: the pairs key=value between the ampersands, in order
RECURSIVE ParseQuery(_)
ParseQuery(q) ==
    IF q = <<>> THEN EmptyMap
    ELSE LET amp == FirstIndex(q, "&", 1)
             pair == SubSeq(q, 1, amp - 1)
             eq == FirstIndex(pair, "=", 1)
             k == QueryUnescape(SubSeq(pair, 1, eq - 1))
             v == QueryUnescape(SubSeq(pair, eq + 1, Len(pair)))
             rest == ParseQuery(SubSeq(q, amp + 1, Len(q)))
         IN  IF pair = <<>> THEN rest
             ELSE IF k \in DOMAIN rest THEN [rest EXCEPT ![k] = <<v>> \o @]
             ELSE MapPut(rest, k, <<v>>)

\* request.URL.RawQuery = request.URL.Query().Encode()
Reencode(req) == [req EXCEPT !.RawQuery = Encode(ParseQuery(@))]

NilCallback == 0
NoResponse == [isNil |-> TRUE]
\* the value New<ResponseType>(response.Body) gives for the response of call i
Decoded(i) == [isNil |-> FALSE, of |-> i]

ErrTransport == "Get: connection refused"
ErrDecode == "invalid character"

\* a call of the sync method ("sync") or of the async method with callback cb
NewCall(kind, cb) ==
    [kind       |-> kind,
     cb         |-> cb,
     cpc        |-> IF kind = "sync" THEN "running" ELSE "start",
     pc         |-> IF kind = "sync" THEN "build" ELSE "idle",
     request    |-> NilRequest,
     restClient |-> NoClient,
     invoked    |-> builder,    \* history: the fields of the builder when the method was called
     buildClient |-> NoClient,  \* history: the client build got from GetClient
     buildErr   |-> NoError,    \* history: the error build returned
     received   |-> FALSE,      \* history: Do gave a response
     closes     |-> 0,          \* calls of response.Body.Close()
     response   |-> NoResponse,
     err        |-> NoError]

\* the sync method returns (response, err); a direct caller gets it at once
SyncExit(c, response, err) ==
    [c EXCEPT !.pc = "done", !.response = response, !.err = err,
              !.cpc = IF c.kind = "sync" THEN "returned" ELSE @]

\* mutant: the body is closed after a successful decoding only
DecodeExitNoDefer(c, i, ok) ==
    IF ok THEN SyncExit([c EXCEPT !.closes = @ + 1], Decoded(i), NoError)
    ELSE SyncExit(c, NoResponse, ErrDecode)

\* result, err := New<ResponseType>(response.Body), the two returns, and
\* the deferred response.Body.Close()
DecodeExit(c, i, ok) ==
    IF ok THEN SyncExit([c EXCEPT !.closes = @ + 1], Decoded(i), NoError)
    ELSE SyncExit([c EXCEPT !.closes = @ + 1], NoResponse, ErrDecode)

Event(i, cb, method, reason, response) ==
    [call |-> i, cb |-> cb, method |-> method, reason |-> reason, response |-> response]

\* the one thread of the program that calls the methods is in none of them
CallerFree == \A i \in 1..Len(calls) : calls[i].cpc = "returned"

CanExec ==
    /\ ~crashed
    /\ Len(calls) < MaxExecs
    /\ CallerFree

RunFrame == UNCHANGED <<xvars, wvars, gvars, mvars>>

\* b.<SyncResponse>()
CallSync ==
    /\ CanExec
    /\ calls' = Append(calls, NewCall("sync", NilCallback))
    /\ UNCHANGED <<log, crashed>>
    /\ RunFrame

\* b.<AsyncResponse>(callback), with nil or with a callback of its own
CallAsync ==
    /\ CanExec
    /\ \E cb \in {NilCallback, Len(calls) + 1} :
          calls' = Append(calls, NewCall("async", cb))
    /\ UNCHANGED <<log, crashed>>
    /\ RunFrame

\* if callback != nil { callback.OnStart() }
AsyncOnStart(i) ==
    /\ ~crashed
    /\ calls[i].cpc = "start"
    /\ calls' = [calls EXCEPT ![i].cpc = "go"]
    /\ log' = IF calls[i].cb # NilCallback
              THEN Append(log, Event(i, calls[i].cb, "OnStart", NoError, NoResponse))
              ELSE log
    /\ UNCHANGED crashed
    /\ RunFrame

\* go func(b) { ... }(b)
AsyncGo(i) ==
    /\ ~crashed
    /\ calls[i].cpc = "go"
    /\ calls' = [calls EXCEPT ![i].cpc = "return", ![i].pc = "build"]
    /\ UNCHANGED <<log, crashed>>
    /\ RunFrame

\* mutant: the async method returns once its task has finished
AsyncReturnWaits(i) ==
    /\ ~crashed
    /\ calls[i].cpc = "return"
    /\ calls[i].pc = "notified"
    /\ calls' = [calls EXCEPT ![i].cpc = "returned"]
    /\ UNCHANGED <<log, crashed>>
    /\ RunFrame

\* the end of the async method
AsyncReturn(i) ==
    /\ ~crashed
    /\ calls[i].cpc = "return"
    /\ calls' = [calls EXCEPT ![i].cpc = "returned"]
    /\ UNCHANGED <<log, crashed>>
    /\ RunFrame

\* request, err := b.build() and the re-encoding of the query
SyncBuild(i) ==
    /\ ~crashed
    /\ calls[i].pc = "build"
    /\ \E out \in build(tmpl, client, builder) :
          IF out.panic
          THEN /\ crashed' = TRUE
               /\ calls' = [calls EXCEPT ![i].pc = "panicked"]
          ELSE /\ crashed' = crashed
               /\ calls' = [calls EXCEPT ![i] =
                               IF out.err # NoError
                               THEN SyncExit([@ EXCEPT !.buildErr = out.err,
                                                       !.buildClient = client],
                                             NoResponse, out.err)
                               ELSE [@ EXCEPT !.pc = "client", !.buildClient = client,
                                              !.request = Reencode(out.req)]]
    /\ UNCHANGED log
    /\ RunFrame

\* restClient := restclient.GetClient(), the nil check and the debug dump
SyncGetClient(i) ==
    /\ ~crashed
    /\ calls[i].pc = "client"
    /\ calls' = [calls EXCEPT ![i] =
                    IF ~client.registered THEN SyncExit(@, NoResponse, ErrNoClient)
                    ELSE [@ EXCEPT !.pc = "do", !.restClient = client]]
    /\ UNCHANGED <<log, crashed>>
    /\ RunFrame

\* response, err := restClient.HttpClient().Do(request): a response, an
\* error, or no answer at all
SyncDo(i) ==
    /\ ~crashed
    /\ calls[i].pc = "do"
    /\ \E answer \in {"response", "error", "none"} :
          calls' = [calls EXCEPT ![i] =
                       IF answer = "response" THEN [@ EXCEPT !.pc = "decode", !.received = TRUE]
                       ELSE IF answer = "error" THEN SyncExit(@, NoResponse, ErrTransport)
                       ELSE [@ EXCEPT !.pc = "blocked"]]
    /\ UNCHANGED <<log, crashed>>
    /\ RunFrame

\* from defer response.Body.Close() to the return
SyncDecode(i) ==
    /\ ~crashed
    /\ calls[i].pc = "decode"
    /\ \E ok \in BOOLEAN : calls' = [calls EXCEPT ![i] = DecodeExit(@, i, ok)]
    /\ UNCHANGED <<log, crashed>>
    /\ RunFrame

\* mutant: after OnError, OnSuccess is invoked as well
AsyncNotifyBoth(i) ==
    /\ ~crashed
    /\ calls[i].kind = "async"
    /\ calls[i].pc = "done"
    /\ calls' = [calls EXCEPT ![i].pc = "notified"]
    /\ log' = IF calls[i].cb = NilCallback THEN log
              ELSE IF calls[i].err # NoError
              THEN log \o <<Event(i, calls[i].cb, "OnError", calls[i].err, NoResponse),
                             Event(i, calls[i].cb, "OnSuccess", NoError, calls[i].response)>>
              ELSE Append(log, Event(i, calls[i].cb, "OnSuccess", NoError, calls[i].response))
    /\ UNCHANGED crashed
    /\ RunFrame

\* the rest of the goroutine: OnError or OnSuccess on a callback that is not nil
AsyncNotify(i) ==
    /\ ~crashed
    /\ calls[i].kind = "async"
    /\ calls[i].pc = "done"
    /\ calls' = [calls EXCEPT ![i].pc = "notified"]
    /\ log' = IF calls[i].cb = NilCallback THEN log
              ELSE IF calls[i].err # NoError
              THEN Append(log, Event(i, calls[i].cb, "OnError", calls[i].err, NoResponse))
              ELSE Append(log, Event(i, calls[i].cb, "OnSuccess", NoError, calls[i].response))
    /\ UNCHANGED crashed
    /\ RunFrame

StrOtherBaseURL == <<"h","t","t","p",":","/","/","g">>

\* the clients a program registers while requests run
RegClients == {NoClient, DefaultClient(StrBaseURL, FALSE), DefaultClient(StrOtherBaseURL, FALSE)}

\* restclient.RegisterClient(c), from any goroutine
RegisterClient ==
    /\ ~crashed
    /\ \E c \in RegClients \ {client} : client' = c
    /\ UNCHANGED <<tmpl, builder, lastArg, lastCall, nCalls, built, pathOut>>
    /\ UNCHANGED <<xvars, wvars, rvars, mvars>>

\* the builders the methods are called on
PhotoBuilder ==
    QuerySetter(QuerySetter(PathSetter(NewBuilder, <<"i","d">>, StrArg(<<"4","2">>)),
                            <<"i","m","a","g","e","_","s","i","z","e">>, IntArg(100)),
                <<"a">>, StrArg(<<"a"," ","b">>))
FormBuilder == FormSetter(NewBuilder, <<"f">>, StrArg(<<"v">>))
RunBuilders == {NewBuilder, PhotoBuilder, FormBuilder}
RunTemplates == {Template(m, StrPhotosEndpoint, {<<"i","d">>}) : m \in {httpMethodGet, httpMethodPost}}

----------------------------------------------------------------------------
(* generate.Generate: the template executed on a ParseResult                *)

\* CommentGroup.Text() of a one-line doc comment: the marker and the blank
\* after it removed, a line break at the end
DocText(d) ==
    IF d = <<>> THEN EmptyString
    ELSE LET t == d[1]
             body == IF Len(t) >= 3 /\ SubSeq(t, 1, 3) = <<"/", "/", " ">> THEN SubSeq(t, 4, Len(t))
                     ELSE IF Len(t) >= 2 /\ SubSeq(t, 1, 2) = <<"/", "/">> THEN SubSeq(t, 3, Len(t))
                     ELSE t
         IN  body \o <<LF>>

\* getAnnotationValue: the value, or log.Fatalf
getAnnotationValue(f) ==
    LET e == ExtractRequestAnnotation(DocText(f.doc))
    IN  [fatal |-> ~e.valid, value |-> e.annotation.Value]

\* the keys in increasing order
RECURSIVE SortedKeys(_)
SortedKeys(keys) ==
    IF keys = {} THEN <<>>
    ELSE LET k == CHOOSE x \in keys : \A y \in keys \ {x} : StrLess(x, y)
         IN  <<k>> \o SortedKeys(keys \ {k})

RECURSIVE KeyOrders(_)
KeyOrders(keys) ==
    IF keys = {} THEN {<<>>}
    ELSE UNION {{<<k>> \o rest : rest \in KeyOrders(keys \ {k})} : k \in keys}

\* mutant: the maps are ranged over as a Go range statement does, in any order
RangeOrdersAny(m) == KeyOrders(DOMAIN m)

\* range $key, $value := <map> of text/template: the keys in sorted order
RangeOrders(m) == {SortedKeys(DOMAIN m)}

\* the maps the template ranges over, in the order of the template
TemplateMaps ==
    <<"PathSubstitutions", "QueryParams", "PostFormParams", "PostParams",
      "HeaderParams", "PostMultiPartParams">>

\* every setter but the one of PostParams holds {{ AnnotationValue $value }}
CallsAnnotationValue(m) == m # "PostParams"

\* the setters emitted for one map, its keys taken in the order given
SettersOf(r, m, order) ==
    [n \in 1..Len(order) |->
        [category |-> m, name |-> order[n],
         value |-> IF CallsAnnotationValue(m) THEN getAnnotationValue(r[m][order[n]]).value
                   ELSE EmptyString]]

\* the setters of the maps from the i-th on
RECURSIVE SettersFrom(_, _)
SettersFrom(r, i) ==
    IF i > Len(TemplateMaps) THEN {<<>>}
    ELSE {SettersOf(r, TemplateMaps[i], order) \o rest :
             order \in RangeOrders(r[TemplateMaps[i]]), rest \in SettersFrom(r, i + 1)}

\* if .CallbackType;  if and .ResponseType .SyncResponse;
\* if and .CallbackType .AsyncResponse
CallbackGate(r) == r.CallbackType # EmptyString
SyncGate(r) == r.ResponseType # EmptyString /\ r.SyncResponse # NoField
AsyncGate(r) == r.CallbackType # EmptyString /\ r.AsyncResponse # NoField

\* Execute fails: getFunctionName on the nil SyncResponse inside the async
\* wrapper, or getAnnotationValue on a doc comment without annotation
ExecuteFails(r) ==
    \/ (AsyncGate(r) /\ r.SyncResponse = NoField)
    \/ \E i \in 1..Len(TemplateMaps) :
          /\ CallsAnnotationValue(TemplateMaps[i])
          /\ \E k \in DOMAIN r[TemplateMaps[i]] : getAnnotationValue(r[TemplateMaps[i]][k]).fatal

\* the text the template gives, part by part
TemplateText(r, setters) ==
    [formatted    |-> FALSE,
     PackageName  |-> r.PackageName,
     callbackType |-> IF CallbackGate(r)
                      THEN <<[name |-> r.CallbackType, response |-> r.ResponseType]>>
                      ELSE <<>>,
     RequestType  |-> r.RequestType,
     setters      |-> setters,
     ApiEndpoint  |-> r.ApiEndpoint,
     HttpMethod   |-> r.HttpMethod,
     sync         |-> IF SyncGate(r)
                      THEN <<[name |-> r.SyncResponse.name, response |-> r.ResponseType]>>
                      ELSE <<>>,
     async        |-> IF AsyncGate(r)
                      THEN <<[name |-> r.AsyncResponse.name, sync |-> r.SyncResponse.name,
                              callback |-> r.CallbackType]>>
                      ELSE <<>>]

\* the text parses as Go: the values put between double quotes hold none,
\* and the names put where an identifier stands are word characters
IsGoSource(t) ==
    /\ DQ \notin Range(t.ApiEndpoint)
    /\ \A n \in 1..Len(t.setters) : DQ \notin Range(t.setters[n].value)
    /\ Range(t.PackageName) \subseteq WordChars
    /\ Range(t.RequestType) \subseteq WordChars
    /\ \A n \in 1..Len(t.callbackType) : Range(t.callbackType[n].name) \subseteq WordChars
    /\ \A n \in 1..Len(t.sync) : Range(t.sync[n].response) \subseteq WordChars

\* format.Source
FormatSource(t) == [t EXCEPT !.formatted = TRUE]

NoText == [fatal |-> TRUE]
Generated(t) == [fatal |-> FALSE, text |-> t]

\* mutant: when format.Source fails the text is returned as the template gave it
GenerateKeepsUnformatted(r) ==
    IF ExecuteFails(r) THEN {NoText}
    ELSE {IF IsGoSource(TemplateText(r, setters))
          THEN Generated(FormatSource(TemplateText(r, setters)))
          ELSE Generated(TemplateText(r, setters)) :
             setters \in SettersFrom(r, 1)}

\* Generate: log.Fatalf when Execute or format.Source fails, else the
\* formatted text
Generate(r) ==
    IF ExecuteFails(r) THEN {NoText}
    ELSE {IF IsGoSource(TemplateText(r, setters))
          THEN Generated(FormatSource(TemplateText(r, setters)))
          ELSE NoText :
             setters \in SettersFrom(r, 1)}

----------------------------------------------------------------------------
(* main: parse the input, walk it, generate, write the output file          *)

StrQuotedEndpoint == <<"a", DQ, "b">>
BodyDoc == LineComment(Annot(bodyKey, <<"p","h","o","t","o">>))

\* the doc comment of the interface declaration of the input
MainDeclDocs ==
    {LineComment(Annot(httpMethodGet, StrGetEndpoint)),
     LineComment(Annot(httpMethodPost, StrPostEndpoint)),
     LineComment(Annot(httpMethodGet, StrQuotedEndpoint))}

\* the doc comments of its methods (<<>>: a method without doc comment)
MainFieldDocs ==
    {<<MapDocs.PathSubstitutions>>, <<MapDocs.QueryParams>>, <<MapDocs.PostFormParams>>,
     <<LineComment(Annot(sync, <<"R">>))>>, <<LineComment(Annot(async, <<"C">>))>>,
     <<LineComment(Annot(async, EmptyString))>>, <<BodyDoc>>, <<>>}

MainFields == {Field(1, MethodNameSeq[k], d) : k \in 1..Len(MethodNameSeq), d \in MainFieldDocs}

\* an input file: one that go/parser rejects, or one interface declaration
Unit(ok, doc, ms) == [valid |-> ok, doc |-> doc, methods |-> ms]
Units ==
    {Unit(FALSE, EmptyString, <<>>)}
    \cup {Unit(TRUE, d, ms) : d \in MainDeclDocs, ms \in SeqsUpTo(MainFields, MaxMethods)}

\* the doc comments of the methods from the i-th on, as the walk hands them to Visit
RECURSIVE VisitFieldDocs(_, _, _)
VisitFieldDocs(st, ms, i) ==
    IF i > Len(ms) THEN st
    ELSE VisitFieldDocs(IF FieldDocIsNil(ms[i]) THEN st ELSE VisitCommentCase(st, ms[i].doc[1]),
                        ms, i + 1)

\* parseAST on a unit of one interface declaration: the comment, the type
\* declaration, the interface type, the doc comments of its methods
ParseUnit(u) ==
    LET st1 == VisitCommentCase(VisitFileCase(PState(newParseResult(PkgName), FALSE)), u.doc)
        st2 == VisitTypeSpecCase(st1, TypeName(1), TRUE)
        out == VisitInterfaceTypeCase(st2, u.methods)
    IN  IF out.panic THEN [panic |-> TRUE, result |-> out.result]
        ELSE [panic |-> FALSE,
              result |-> VisitFieldDocs(PState(out.result, st2.buildRequest), u.methods, 1).result]

NoFile == [exists |-> FALSE]
File(t) == [exists |-> TRUE, text |-> t]

MainIdle ==
    /\ unit = Unit(FALSE, EmptyString, <<>>)
    /\ mainPc = "idle"
    /\ parsed = Pending
    /\ genOut = Pending
    /\ outFile = NoFile

MainInit ==
    /\ unit \in Units
    /\ mainPc = "start"
    /\ parsed = Pending
    /\ genOut = Pending
    /\ outFile = NoFile

MainFrame == UNCHANGED <<xvars, wvars, gvars, rvars>>

\* parser.ParseFile, and os.Exit(1) on its error
MainParseFile ==
    /\ mainPc = "start"
    /\ mainPc' = IF unit.valid THEN "file" ELSE "exited"
    /\ UNCHANGED <<unit, parsed, genOut, outFile>>
    /\ MainFrame

\* parseResult := parseAST(file, *pkg)
MainParseAST ==
    /\ mainPc = "file"
    /\ \E p \in {ParseUnit(unit)} :
          IF p.panic
          THEN /\ mainPc' = "panic"
               /\ UNCHANGED parsed
          ELSE /\ mainPc' = "parsed"
               /\ parsed' = p.result
    /\ UNCHANGED <<unit, genOut, outFile>>
    /\ MainFrame

\* buf, err := generateBuilder(parseResult)
MainGenerate ==
    /\ mainPc = "parsed"
    /\ \E g \in Generate(parsed) :
          IF g.fatal
          THEN /\ mainPc' = "fatal"
               /\ UNCHANGED genOut
          ELSE /\ mainPc' = "generated"
               /\ genOut' = g.text
    /\ UNCHANGED <<unit, parsed, outFile>>
    /\ MainFrame

\* writeFile(*output, buf)
MainWriteFile ==
    /\ mainPc = "generated"
    /\ outFile' = File(genOut)
    /\ mainPc' = "written"
    /\ UNCHANGED <<unit, parsed, genOut>>
    /\ MainFrame

----------------------------------------------------------------------------
(* Specifications *)

Init == ExtractIdle /\ WalkInit /\ RunIdle /\ MainIdle

Next ==
    \/ VisitFile
    \/ VisitDeclComment
    \/ VisitTypeSpec
    \/ VisitStructType
    \/ VisitFuncDecl
    \/ VisitInterfaceType
    \/ VisitFieldComment
    \/ ParseReturn

Spec == Init /\ [][Next]_vars

InitExtract == ExtractInit /\ WalkInit /\ RunIdle /\ MainIdle

NextExtract ==
    \/ CallExtractHttp
    \/ CallExtractRequest

SpecExtract == InitExtract /\ [][NextExtract]_vars

InitBuild == ExtractIdle /\ WalkInit /\ RunInit(BuildTemplates, Clients) /\ MainIdle

NextBuild ==
    \/ CallPathSetter
    \/ CallQuerySetter
    \/ CallFormSetter
    \/ CallBodySetter
    \/ CallHeaderSetter
    \/ CallPartSetter
    \/ CallBuild

SpecBuild == InitBuild /\ [][NextBuild]_vars

InitPath ==
    ExtractIdle /\ WalkInit /\ RunInit(PathTemplates, {DefaultClient(StrBaseURL, FALSE)}) /\ MainIdle

NextPath ==
    \/ CallPathSetter
    \/ CallApplyPath

SpecPath == InitPath /\ [][NextPath]_vars

InitRun ==
    /\ ExtractIdle
    /\ WalkInit
    /\ MainIdle
    /\ client \in Clients
    /\ tmpl \in RunTemplates
    /\ builder \in RunBuilders
    /\ lastArg = EmptyMap
    /\ lastCall = NoCall
    /\ nCalls = 0
    /\ built = Pending
    /\ pathOut = Pending
    /\ calls = <<>>
    /\ log = <<>>
    /\ crashed = FALSE

NextRun ==
    \/ CallSync
    \/ CallAsync
    \/ \E i \in 1..Len(calls) :
          \/ AsyncOnStart(i)
          \/ AsyncGo(i)
          \/ AsyncReturn(i)
          \/ SyncBuild(i)
          \/ SyncGetClient(i)
          \/ SyncDo(i)
          \/ SyncDecode(i)
          \/ AsyncNotify(i)

SpecRun == InitRun /\ [][NextRun]_vars

\* the methods run while clients are registered
NextRegister ==
    \/ NextRun
    \/ RegisterClient

SpecRegister == InitRun /\ [][NextRegister]_vars

\* the methods run while the caller goes on calling setters of the builder
InitShared ==
    /\ InitRun
    /\ client = DefaultClient(StrBaseURL, FALSE)
    /\ tmpl.HttpMethod = httpMethodGet
    /\ builder = NewBuilder

\* the caller, back from the sync or async method, calls a path setter
CallerSetsPath == CallerFree /\ CallPathSetter

NextShared ==
    \/ NextRun
    \/ CallerSetsPath

SpecShared == InitShared /\ [][NextShared]_vars

InitMain == ExtractIdle /\ WalkInit /\ RunIdle /\ MainInit

NextMain ==
    \/ MainParseFile
    \/ MainParseAST
    \/ MainGenerate
    \/ MainWriteFile

SpecMain == InitMain /\ [][NextMain]_vars

----------------------------------------------------------------------------
(* Claims about the extractors (SpecExtract) *)

NoAnnotation == Extracted(EmptyAnnotation, FALSE)

HttpCalledOnAnnot == httpOut # Pending /\ shape = "annot"
RequestCalledOnAnnot == reqOut # Pending /\ shape = "annot"

\* what both statements of C1 say about the keys that are not empty
C1_NonEmptyKeys ==
    /\ inKey \in httpMethods \ {httpMethodPostForm}
         => httpOut = Extracted(Annotation(inKey, inVal), TRUE)
    /\ inKey = httpMethodPostForm
         => httpOut = Extracted(Annotation(httpMethodPost, inVal), TRUE)
    /\ (inKey \notin httpMethods /\ inKey # EmptyString) => httpOut = NoAnnotation

\* a value that holds no line break
OneLine(v) == LF \notin Range(v)

\* C1 (as amended): on a text @M("p") where M is a run of word characters or
\* empty and p holds no line break, ExtractHttpAnnotation returns (M, p) for
\* M in GET, POST, PUT, DELETE, HEAD, returns (POST, p) for POST_FORM, p empty
\* included, returns no match for every other non-empty key, and returns no
\* match for the empty key when p holds no at sign.
C1_HttpExtraction ==
    (HttpCalledOnAnnot /\ OneLine(inVal)) =>
        /\ C1_NonEmptyKeys
        /\ (inKey = EmptyString /\ AT \notin Range(inVal)) => httpOut = NoAnnotation

\* C1 (original): on every text @M("p"), ExtractHttpAnnotation returns (M, p)
\* for M in GET, POST, PUT, DELETE, HEAD, returns (POST, p) for POST_FORM,
\* and returns no match for every other key and for the empty key.
C1_Original ==
    HttpCalledOnAnnot =>
        /\ C1_NonEmptyKeys
        /\ inKey = EmptyString => httpOut = NoAnnotation

\* C1 witness: @POST_FORM("") has been extracted as (POST, "")
C1_Witness ==
    /\ HttpCalledOnAnnot
    /\ inKey = httpMethodPostForm
    /\ inVal = EmptyString
    /\ httpOut.valid
    /\ httpOut.annotation.Key = httpMethodPost

\* what both statements of C2 say of the keys that are not empty
C2_NonEmptyKeys ==
    /\ inKey \in annotationTypes => reqOut = Extracted(Annotation(inKey, inVal), TRUE)
    /\ (inKey \notin annotationTypes /\ inKey # EmptyString) => reqOut = NoAnnotation

\* no text of any shape has been accepted by both extractors
C2_Disjoint ==
    (httpOut # Pending /\ reqOut # Pending) => ~(httpOut.valid /\ reqOut.valid)

\* C2 (as amended): on a text @K("v") where K is a run of word characters and
\* v holds no line break, ExtractRequestAnnotation returns (K, v) unchanged
\* for K in PATH, QUERY, FIELD, HEADER, PART, SYNC, ASYNC, v empty included,
\* and no match for every other key (HTTP keys and keys in lower case
\* included); no text of any shape is accepted by both extractors.
C2_RequestExtraction ==
    /\ (RequestCalledOnAnnot /\ OneLine(inVal)) => C2_NonEmptyKeys
    /\ C2_Disjoint

\* C2 (original): on every text @K("v"), ExtractRequestAnnotation returns
\* (K, v) unchanged for K in PATH, QUERY, FIELD, HEADER, PART, SYNC, ASYNC
\* and no match for every other key; no text is accepted by both extractors.
C2_Original ==
    /\ RequestCalledOnAnnot => C2_NonEmptyKeys
    /\ C2_Disjoint

\* C2 witness: @HEAD("a") has gone through both extractors; the parameter
\* extractor refused it and the HTTP extractor took it
C2_Witness ==
    /\ RequestCalledOnAnnot
    /\ httpOut # Pending
    /\ inKey = httpMethodHead
    /\ inVal = <<"a">>
    /\ reqOut = NoAnnotation
    /\ httpOut.valid

----------------------------------------------------------------------------
(* Claims about the walk (Spec) *)

\* Value of the parameter annotation of a stored field
AnnotationValueOf(f) == ExtractRequestAnnotation(f.doc[1]).annotation.Value

\* C3: each of the five maps is keyed by the annotation's value, so two
\* methods with the same key and value leave one entry, the later method's.
C3_KeyedByAnnotationValue ==
    \A m \in FilledMaps :
        /\ \A k \in DOMAIN result[m] : k = AnnotationValueOf(result[m][k])
        /\ \A k1, k2 \in DOMAIN result[m] :
              AnnotationValueOf(result[m][k1]) = AnnotationValueOf(result[m][k2]) => k1 = k2

\* C4: once the type declaration that follows an HTTP annotation turned out
\* not to be an interface, the walker is Idle (until another comment holds
\* an HTTP annotation), and the name of a later interface declaration that
\* has no HTTP annotation of its own is not recorded as RequestType.
C4_NonInterfaceRevertsToIdle ==
    revertDue =>
        /\ ~buildRequest
        /\ pc = "iface" => result.RequestType # TypeName(nDecls + 1)

\* C5: at the end of the walk RequestType, ApiEndpoint and HttpMethod are all
\* set or all unset.
C5_SetTogether ==
    pc = "done" =>
        \/ result.RequestType # EmptyString /\ result.HttpMethod # EmptyString
        \/ /\ result.RequestType = EmptyString
           /\ result.HttpMethod = EmptyString
           /\ result.ApiEndpoint = EmptyString

\* C6: in every result of Parse, SyncResponse present implies ResponseType
\* non-empty and AsyncResponse present implies CallbackType non-empty.
C6_ResponseTypesPresent ==
    pc = "done" =>
        /\ result.SyncResponse # NoField => result.ResponseType # EmptyString
        /\ result.AsyncResponse # NoField => result.CallbackType # EmptyString

\* C7: a unit in which no type declaration is preceded by an HTTP annotation
\* yields the empty spec.
C7_EmptySpec ==
    (pc = "done" /\ ~typeAnnotated) => result = newParseResult(PkgName)

\* the effect C8 allows to one iteration on field f, from r to r2
OneMapEntry(r, r2, m, f) ==
    /\ \A fld \in DOMAIN r \ {m} : r2[fld] = r[fld]
    /\ \E k \in DOMAIN r2[m] :
        /\ r2[m][k] = f
        /\ DOMAIN r2[m] = DOMAIN r[m] \cup {k}
        /\ \A x \in DOMAIN r[m] \ {k} : r2[m][x] = r[m][x]

OnePair(r, r2, fresp, ftype, f, v) ==
    /\ \A fld \in DOMAIN r \ {fresp, ftype} : r2[fld] = r[fld]
    /\ r2[fresp] = f
    /\ r2[ftype] = v

FrameOfMethod(r, r2, f) ==
    LET e == ExtractRequestAnnotation(f.doc[1])
        key == e.annotation.Key
    IN  IF ~e.valid THEN r2 = r
        ELSE CASE key = path   -> OneMapEntry(r, r2, "PathSubstitutions", f)
               [] key = query  -> OneMapEntry(r, r2, "QueryParams", f)
               [] key = field  -> OneMapEntry(r, r2, "PostFormParams", f)
               [] key = header -> OneMapEntry(r, r2, "HeaderParams", f)
               [] key = part   -> OneMapEntry(r, r2, "PostMultiPartParams", f)
               [] key = sync   -> OnePair(r, r2, "SyncResponse", "ResponseType", f, e.annotation.Value)
               [] key = async  -> OnePair(r, r2, "AsyncResponse", "CallbackType", f, e.annotation.Value)

\* the iterations of the loop on ms[k], ms[k+1], ..., started on r, each
\* keep to the frame of its method, and they leave rEnd (the loop stops at
\* a nil Doc)
RECURSIVE FramesFrom(_, _, _, _)
FramesFrom(r, ms, k, rEnd) ==
    IF k > Len(ms) \/ FieldDocIsNil(ms[k]) THEN rEnd = r
    ELSE LET r2 == CollectField(r, ms[k])
         IN  FrameOfMethod(r, r2, ms[k]) /\ FramesFrom(r2, ms, k + 1, rEnd)

C9_NoDocNotAnError == pc # "panic"

\* C10: when the unit holds two annotated interfaces, the spec at the end of
\* the walk is that of the later one, B: RequestType is B and every map entry
\* and response slot comes from a method of B.
C10_OnlyLastInterface ==
    (pc = "done" /\ ifaceCount >= 2) =>
        /\ result.RequestType = TypeName(lastIface.decl)
        /\ \A m \in AllMaps : \A k \in DOMAIN result[m] : result[m][k].iface = lastIface.decl
        /\ result.SyncResponse.iface \in {0, lastIface.decl}
        /\ result.AsyncResponse.iface \in {0, lastIface.decl}


----------------------------------------------------------------------------
(* Claims about build()                                                     *)

\* build has been called and has given a request
BuildReturned == built # Pending /\ ~built.panic /\ built.err = NoError

BuildPanicked == built # Pending /\ built.panic

IsPostOrPut == tmpl.HttpMethod \in {httpMethodPost, httpMethodPut}

\* build has been called for POST or PUT with a client whose base URL parses
PostBuilt == built # Pending /\ IsPostOrPut /\ client.registered /\ UrlParses(client.baseURL)

\* the HEADER annotation values that name the header name
HeaderKeyed(name) == {k \in DOMAIN builder.headerParams : CanonicalMIMEHeaderKey(k) = name}

\* the body and the Content-Type the precedence body, form, multipart gives
SelectedBranch ==
    IF ~builder.postBody.isNil THEN "json"
    ELSE IF DOMAIN builder.postFormParams # {} THEN "form"
    ELSE "multipart"

SomeBodySet ==
    \/ ~builder.postBody.isNil
    \/ DOMAIN builder.postFormParams # {}
    \/ DOMAIN builder.postMultiPartParam # {}

\* what both statements of C11 say: no crash, no error but the encoder's,
\* and the body of the highest of body, form, multipart
C11_Body ==
    /\ ~built.panic
    /\ built.err # NoError => (built.err = ErrMarshal /\ builder.postBody = BadBody)
    /\ built.err = NoError =>
          /\ built.req.Method = tmpl.HttpMethod
          /\ built.req.Body = BranchBody(SelectedBranch, builder)

C12_NoBodyMethods ==
    (built # Pending /\ client.registered /\ UrlParses(client.baseURL)) =>
        /\ tmpl.HttpMethod \in {httpMethodGet, httpMethodDelete, httpMethodHead} =>
              /\ BuildReturned
              /\ built.req.Method = tmpl.HttpMethod
              /\ built.req.Body = NoBody
              /\ built.req.URL \in {client.baseURL \o api :
                                      api \in applyPathSubstituions(builder, tmpl.ApiEndpoint)}
              /\ built.req.RawQuery = IF DOMAIN builder.queryParams # {}
                                      THEN Encode(builder.queryParams) ELSE EmptyString
        /\ (IsPostOrPut /\ BuildReturned) => built.req.RawQuery = EmptyString

\* C13: for POST or PUT with no body object, no form value and no multipart
\* value, build gives a request with the Accept header, no error, no crash.
C13_EmptyPostBuilds ==
    (PostBuilt /\ ~SomeBodySet) =>
        /\ BuildReturned
        /\ ~built.req.isNil
        /\ StrAccept \in DOMAIN built.req.Header

\* C14: a request build gives carries every header of the HEADER setters
\* called, and Accept: application/json whatever setters were called.
C14_AcceptUnconditional ==
    BuildReturned =>
        /\ \A k \in DOMAIN builder.headerParams :
              CanonicalMIMEHeaderKey(k) # StrAccept =>
                 /\ CanonicalMIMEHeaderKey(k) \in DOMAIN built.req.Header
                 /\ built.req.Header[CanonicalMIMEHeaderKey(k)] = builder.headerParams[k]
        /\ StrAccept \in DOMAIN built.req.Header
        /\ built.req.Header[StrAccept] = StrApplicationJson

----------------------------------------------------------------------------
(* Claims about path substitution                                           *)

Token(k) == <<"{">> \o k \o <<"}">>

\* the names k of the tokens {k} of a template
TokenNames(api) ==
    {SubSeq(api, i + 1, j - 1) :
        <<i, j>> \in {p \in (1..Len(api)) \X (1..Len(api)) :
                         /\ p[1] < p[2]
                         /\ api[p[1]] = "{"
                         /\ api[p[2]] = "}"
                         /\ \A x \in (p[1] + 1)..(p[2] - 1) : api[x] \notin {"{", "}"}}}

\* the number of occurrences of tok in s
RECURSIVE CountOf(_, _)
CountOf(s, tok) ==
    IF Len(s) < Len(tok) THEN 0
    ELSE IF SubSeq(s, 1, Len(tok)) = tok
         THEN 1 + CountOf(SubSeq(s, Len(tok) + 1, Len(s)), tok)
         ELSE CountOf(Tail(s), tok)

\* the template with every token that has a value replaced by the value, in
\* one pass from the left; the other tokens stay
RECURSIVE SubstituteTokens(_, _)
SubstituteTokens(api, vals) ==
    IF api = <<>> THEN <<>>
    ELSE LET here == {k \in DOMAIN vals :
                         /\ Len(api) >= Len(k) + 2
                         /\ SubSeq(api, 1, Len(k) + 2) = Token(k)}
         IN  IF here = {} THEN <<api[1]>> \o SubstituteTokens(Tail(api), vals)
             ELSE LET k == CHOOSE x \in here : TRUE
                  IN  vals[k] \o SubstituteTokens(SubSeq(api, Len(k) + 3, Len(api)), vals)

PathApplied == pathOut # Pending

\* the stringified last argument of every path setter called
LastArgs == [k \in DOMAIN lastArg |-> Sprintf(lastArg[k])]

\* C15: when the tokens of the template are exactly the PATH values and every
\* path setter has been called, in any order and any number of times, the
\* endpoint assembled has every occurrence of every token replaced by the
\* stringified argument of the last call of its setter.
C15_PathRoundTrip ==
    (/\ PathApplied
     /\ TokenNames(tmpl.ApiEndpoint) = tmpl.pathKeys
     /\ DOMAIN lastArg = tmpl.pathKeys) =>
        pathOut.api = SubstituteTokens(tmpl.ApiEndpoint, LastArgs)

NoValueHoldsBrace == \A k \in DOMAIN builder.pathSubstitutions : "{" \notin Range(builder.pathSubstitutions[k])

\* C16: a token of the template for which the builder holds no path value is
\* still in the assembled endpoint, as often as in the template (and at its
\* place when no value set holds a brace); with no path value at all the
\* endpoint is the template.
C16_UnsetTokenStays ==
    PathApplied =>
        /\ DOMAIN builder.pathSubstitutions = {} => pathOut.api = tmpl.ApiEndpoint
        /\ \A t \in TokenNames(tmpl.ApiEndpoint) \ DOMAIN builder.pathSubstitutions :
              CountOf(pathOut.api, Token(t)) >= CountOf(tmpl.ApiEndpoint, Token(t))
        /\ NoValueHoldsBrace =>
              pathOut.api = SubstituteTokens(tmpl.ApiEndpoint, builder.pathSubstitutions)

\* C16 witness: /{a}/{c} with the value 42 for a and none for c gives /42/{c}
C16_Witness ==
    /\ PathApplied
    /\ tmpl.ApiEndpoint = <<"/","{","a","}","/","{","c","}">>
    /\ DOMAIN builder.pathSubstitutions = {<<"a">>}
    /\ pathOut.api = <<"/","4","2","/","{","c","}">>

\* C17: the endpoint assembled is the same for every order in which the
\* recorded PATH keys are processed.
C17_OrderIndependent ==
    PathApplied =>
        \A api \in applyPathSubstituions(builder, tmpl.ApiEndpoint) : api = pathOut.api

----------------------------------------------------------------------------
(* Claims about the sync and async methods                                  *)

Calls == 1..Len(calls)

\* the sync path of call i has returned
SyncReturned(i) == calls[i].pc \in {"done", "notified"}

EventsOf(i) ==
    LET OfCall(e) == e.call = i
    IN  SelectSeq(log, OfCall)

\* C19: for a call of the async method with a callback, OnStart is invoked
\* once, before the task is dispatched; once the sync path has completed and
\* the task has ended, one of OnError and OnSuccess has been invoked once,
\* after OnStart, on the same callback: OnError with the error's message iff
\* the sync path returned an error, else OnSuccess with the response of this
\* call; before that, neither has been invoked. With a nil callback, and for
\* calls of the sync method, nothing is invoked.
C19_CallbackProtocol ==
    \A i \in Calls :
        LET c == calls[i]
            ev == EventsOf(i)
        IN  IF c.kind = "sync" \/ c.cb = NilCallback THEN ev = <<>>
            ELSE /\ \A n \in 1..Len(ev) : ev[n].cb = c.cb
                 /\ c.cpc = "start" => ev = <<>>
                 /\ c.pc = "idle" => Len(ev) <= 1
                 /\ c.cpc # "start" => (Len(ev) >= 1 /\ ev[1].method = "OnStart")
                 /\ (c.cpc # "start" /\ c.pc # "notified") => Len(ev) = 1
                 /\ c.pc = "notified" =>
                       /\ Len(ev) = 2
                       /\ ev[2].method = IF c.err # NoError THEN "OnError" ELSE "OnSuccess"
                       /\ ev[2].reason = c.err
                       /\ ev[2].response = IF c.err # NoError THEN NoResponse ELSE Decoded(i)

\* C19 witness: two async calls have ended, one with OnError and one with
\* OnSuccess, each on its own callback
C19_Witness ==
    /\ Len(log) = 4
    /\ \E i, j \in Calls :
          /\ calls[i].pc = "notified" /\ calls[i].err # NoError /\ calls[i].cb # NilCallback
          /\ calls[j].pc = "notified" /\ calls[j].err = NoError /\ calls[j].cb # NilCallback
          /\ EventsOf(i)[2].method = "OnError"
          /\ EventsOf(j)[2].method = "OnSuccess"

\* C20: the async method, once it has dispatched its task, can return
\* whatever the task has done so far.
C20_ReturnsWithoutWaiting ==
    \A i \in Calls :
        (~crashed /\ calls[i].cpc = "return") => ENABLED AsyncReturn(i)

\* C20 witness: one async call has returned while its task has not built the
\* request, another while the transport gives no answer
C20_Witness ==
    \E i, j \in Calls :
        /\ calls[i].kind = "async" /\ calls[i].cpc = "returned" /\ calls[i].pc = "build"
        /\ calls[j].kind = "async" /\ calls[j].cpc = "returned" /\ calls[j].pc = "blocked"

----------------------------------------------------------------------------
(* Claims about the walk, continued                                         *)

\* C27: at the end of the walk, when RequestType names the last interface
\* declaration that has an HTTP annotation as its doc comment, HttpMethod and
\* ApiEndpoint are the key and the value of that annotation, whatever the doc
\* comments of the interface's methods and of later declarations hold.
C27_MethodOfTheInterface ==
    (/\ pc = "done"
     /\ lastIface.decl # 0
     /\ result.RequestType = TypeName(lastIface.decl)) =>
        LET a == ExtractHttpAnnotation(lastIface.doc).annotation
        IN  /\ result.HttpMethod = a.Key
            /\ result.ApiEndpoint = a.Value

----------------------------------------------------------------------------
(* Claims about the setters                                                 *)

\* the last setter call was the header setter of key k with the empty string
HeaderEmptied(k) == lastCall = SetterCall("header", k, StrArg(EmptyString))

\* C25: after a call of a HEADER setter with the empty string the builder's
\* header map has no entry for that header, and the request build gives does
\* not carry it.
C25_EmptyValueRemovesHeader ==
    \A k \in HeaderKeys :
        HeaderEmptied(k) =>
            /\ k \notin DOMAIN builder.headerParams
            /\ (BuildReturned /\ CanonicalMIMEHeaderKey(k) \notin {StrAccept, StrContentType}) =>
                  CanonicalMIMEHeaderKey(k) \notin DOMAIN built.req.Header

\* the field of the builder a setter writes
FieldOf(kind) ==
    CASE kind = "path"   -> "pathSubstitutions"
      [] kind = "query"  -> "queryParams"
      [] kind = "form"   -> "postFormParams"
      [] kind = "body"   -> "postBody"
      [] kind = "header" -> "headerParams"
      [] kind = "part"   -> "postMultiPartParam"

\* m2 is m1 with the entry of key k set to v
Overwritten(m1, m2, k, v) ==
    /\ DOMAIN m2 = DOMAIN m1 \cup {k}
    /\ m2[k] = v
    /\ \A x \in DOMAIN m1 \ {k} : m2[x] = m1[x]

\* m2 is m1 with v put after the values of key k
Appended(m1, m2, k, v) ==
    /\ DOMAIN m2 = DOMAIN m1 \cup {k}
    /\ m2[k] = (IF k \in DOMAIN m1 THEN m1[k] ELSE <<>>) \o <<v>>
    /\ \A x \in DOMAIN m1 \ {k} : m2[x] = m1[x]

SetterFrame ==
    LET c == lastCall'
        f == FieldOf(c.kind)
    IN  /\ \A g \in DOMAIN builder \ {f} : builder'[g] = builder[g]
        /\ c.kind \in {"path", "header"} =>
              Overwritten(builder[f], builder'[f], c.key, Sprintf(c.arg))
        /\ c.kind \in {"query", "form"} =>
              Appended(builder[f], builder'[f], c.key, Sprintf(c.arg))

----------------------------------------------------------------------------
(* Claims about the methods and the state they share                        *)

\* the sync path of call i has built its request
HasBuilt(i) == ~calls[i].request.isNil

\* C28: the request the task of an async call builds is one that build gives
\* for the fields the builder had when the async method was called.
C28_RequestOfTheInvocation ==
    \A i \in Calls :
        (calls[i].kind = "async" /\ HasBuilt(i)) =>
            calls[i].request \in
                {Reencode(o.req) : o \in {x \in build(tmpl, calls[i].buildClient, calls[i].invoked) :
                                             ~x.panic /\ x.err = NoError}}

\* C29: in one execution of the sync method, the client whose transport sends
\* the request is the client whose base URL the request was built with.
C29_OneClientPerExecution ==
    \A i \in Calls :
        calls[i].restClient.registered => calls[i].restClient = calls[i].buildClient

\* the callback methods invoked for call i, by name
MethodsOf(i) == [n \in 1..Len(EventsOf(i)) |-> EventsOf(i)[n].method]

\* C30: with no client registered, the sync method gives a nil response and
\* the error that no rest client has been registered, builds no request and
\* calls no transport, and nothing crashes; an async call with a callback
\* invokes OnStart and then OnError with that error, once, and no OnSuccess.
C30_NoClientRegistered ==
    ~client.registered =>
        /\ ~crashed
        /\ \A i \in Calls :
              /\ calls[i].pc \in {"idle", "build", "done", "notified"}
              /\ calls[i].request = NilRequest
              /\ ~calls[i].received
              /\ SyncReturned(i) =>
                    (calls[i].err = ErrNoClient /\ calls[i].response = NoResponse)
              /\ \A n \in 1..Len(EventsOf(i)) : EventsOf(i)[n].method # "OnSuccess"
              /\ (calls[i].pc = "notified" /\ calls[i].cb # NilCallback) =>
                    /\ MethodsOf(i) = <<"OnStart", "OnError">>
                    /\ EventsOf(i)[2].reason = ErrNoClient

\* C30 witness: with no client registered a sync call has returned the error
\* and an async call has reported it to its callback
C30_Witness ==
    /\ ~client.registered
    /\ \E i, j \in Calls :
          /\ calls[i].kind = "sync" /\ SyncReturned(i) /\ calls[i].err = ErrNoClient
          /\ calls[j].kind = "async" /\ calls[j].pc = "notified"
          /\ MethodsOf(j) = <<"OnStart", "OnError">>
----------------------------------------------------------------------------
(* Claims about the gorest command *)

IsPostDoc(d) == ExtractHttpAnnotation(d).valid /\ ExtractHttpAnnotation(d).annotation.Key = httpMethodPost
HasBodyMethod(u) == u.valid /\ IsPostDoc(u.doc) /\ \E i \in 1..Len(u.methods) : u.methods[i].doc = <<BodyDoc>>
GenerationAttempted == mainPc \in {"generated", "written", "fatal"}

\* C24: a method documented @BODY("name") in a POST interface is recognised:
\* the walk stores it among the body parameters, and the generated text holds
\* a body setter for it.
C24_BodyAnnotationRecognised ==
    (HasBodyMethod(unit) /\ mainPc \in {"parsed", "generated", "written", "fatal"}) =>
        /\ \E k \in DOMAIN parsed.PostParams : parsed.PostParams[k].doc = <<BodyDoc>>
        /\ mainPc \in {"generated", "written"} =>
              \E n \in 1..Len(genOut.setters) : genOut.setters[n].category = "PostParams"

\* C21: the wrappers are gated independently: the text holds the synchronous
\* wrapper exactly when a SYNC method was met, and the asynchronous wrapper
\* and the callback type exactly when an ASYNC method was met; an interface
\* with an ASYNC method and no SYNC method generates successfully.
C21_WrappersGatedIndependently ==
    (GenerationAttempted /\ DQ \notin Range(parsed.ApiEndpoint)) =>
        /\ mainPc # "fatal"
        /\ (genOut.sync # <<>>) <=> (parsed.SyncResponse # NoField)
        /\ (genOut.async # <<>>) <=> (parsed.AsyncResponse # NoField)
        /\ (genOut.callbackType # <<>>) <=> (parsed.AsyncResponse # NoField)

\* every output file the command can leave for the input u
MainOutcomes(u) ==
    IF ~u.valid THEN {NoFile}
    ELSE UNION {IF p.panic THEN {NoFile}
                ELSE {IF g.fatal THEN NoFile ELSE File(g.text) : g \in Generate(p.result)} :
                   p \in {ParseUnit(u)}}

\* C22: generation is deterministic: every run of the command on the same
\* input leaves the same output file as the one written, whatever the order
\* the methods were declared in.
C22_Deterministic == mainPc = "written" => MainOutcomes(unit) = {outFile}

C22_Witness ==
    /\ mainPc = "written"
    /\ Len(unit.methods) = 2
    /\ unit.methods[1] = Field(1, MethodNameSeq[2], <<MapDocs.PathSubstitutions>>)
    /\ unit.methods[2] = Field(1, MethodNameSeq[1], <<MapDocs.PathSubstitutions>>)
    /\ Len(outFile.text.setters) = 2
    /\ outFile.text.setters[1].name = MethodNameSeq[1]
    /\ outFile.text.setters[2].name = MethodNameSeq[2]

\* C23: the output file is written atomically with respect to failures: a
\* run that fails in parsing, in the template or in formatting leaves no
\* file, and a file that exists holds the complete formatted text of the
\* parse result.
C23_NoFileOnFailure ==
    /\ mainPc # "written" => outFile = NoFile
    /\ mainPc = "written" =>
          /\ unit.valid
          /\ outFile = File(genOut)
          /\ outFile.text.formatted
          /\ IsGoSource(outFile.text)
          /\ Generated(outFile.text) \in Generate(parsed)

C23_Witness ==
    /\ mainPc = "fatal"
    /\ DQ \in Range(parsed.ApiEndpoint)
    /\ ~ExecuteFails(parsed)
    /\ outFile = NoFile

====
